---- MODULE Spec2Model ----
(***************************************************************************)
(* A model of the Knowledge Engine backend (src/main.py): the JSON         *)
(* documents its tools read whole and write whole, the tools themselves,   *)
(* and the per-session conversation history kept by the chat endpoint.     *)
(*                                                                         *)
(* Strings are sequences of one-character strings, so that lower(),        *)
(* substring tests, splitting and ordering are computed, not assumed.      *)
(* datetime.now() is read from `clock`, which has the granularity of one   *)
(* tool invocation: it advances once per invocation that reads the time.   *)
(***************************************************************************)
EXTENDS Integers, Sequences, FiniteSets, TLC

VARIABLES
    files,      \* document name -> [kind: absent | malformed | ok, recs: records]
    writable,   \* document name -> whether open(name, 'w') succeeds
    clock,      \* the value datetime.now() returns next
    call,       \* the last tool invocation: its name and arguments
    ret,        \* what the last tool invocation gave its caller
    written,    \* the documents the last tool invocation wrote
    saved,      \* the success confirmations save_knowledge has returned, in order
    sessions,   \* conversation_sessions: session id -> list of messages
    req,        \* request thread -> the request it handles or handled last
    nextOid,    \* the number of message objects created so far
    appended,   \* session id -> the messages appended since its list was last emptied
    task        \* tool thread -> the tool call it runs or ran last, with its locals

toolVars == <<files, writable, clock, call, ret, written, saved>>
chatVars == <<sessions, req, nextOid, appended>>
vars == <<files, writable, clock, call, ret, written, saved,
          sessions, req, nextOid, appended, task>>

-----------------------------------------------------------------------------
(* Bounds of the model. *)

MaxEntries == 3
MaxClock == 3
MaxTurns == 11
MaxRaceTurns == 12
MaxRaceEntries == 2
MaxRaceClock == 4
MaxEnvClock == 2

-----------------------------------------------------------------------------
(* Strings. *)

LowerChar(c) ==
    CASE c = "A" -> "a" [] c = "B" -> "b" [] c = "C" -> "c" [] c = "M" -> "m"
      [] OTHER -> c

UpperChar(c) ==
    CASE c = "a" -> "A" [] c = "b" -> "B" [] c = "c" -> "C" [] c = "m" -> "M"
      [] c = "d" -> "D" [] c = "i" -> "I" [] c = "z" -> "Z"
      [] OTHER -> c

\* The code point of a character: Python orders strings by code point.
Ord(c) ==
    CASE c = "A" -> 65 [] c = "B" -> 66 [] c = "C" -> 67 [] c = "M" -> 77
      [] c = "a" -> 97 [] c = "b" -> 98 [] c = "c" -> 99 [] c = "d" -> 100
      [] c = "i" -> 105 [] c = "m" -> 109 [] c = "z" -> 122
      [] OTHER -> 0

Lower(s) == [i \in 1..Len(s) |-> LowerChar(s[i])]

Upper(s) == [i \in 1..Len(s) |-> UpperChar(s[i])]

\* Python's `q in s` on strings.
IsSubstr(q, s) ==
    \E i \in 0..(Len(s) - Len(q)) : SubSeq(s, i + 1, i + Len(q)) = q

\* Python's `a < b` on strings: lexicographic by code point, a proper prefix first.
RECURSIVE StrLess(_, _)
StrLess(a, b) ==
    IF b = <<>> THEN FALSE
    ELSE IF a = <<>> THEN TRUE
    ELSE IF Ord(a[1]) # Ord(b[1]) THEN Ord(a[1]) < Ord(b[1])
    ELSE StrLess(Tail(a), Tail(b))

-----------------------------------------------------------------------------
(* Documents on disk. *)

KB == "knowledge_base"
VOCAB == "vocabulary_list"
MINDMAPS == "mindmaps"
IDEAS == "ideas_journal"
FLASHCARDS == "flashcards"
ROADMAPS == "learning_roadmaps"

DocNames == {KB, VOCAB, MINDMAPS, IDEAS, FLASHCARDS, ROADMAPS}

AbsentFile == [kind |-> "absent", recs |-> <<>>]
MalformedFile == [kind |-> "malformed", recs |-> <<>>]
OkFile(recs) == [kind |-> "ok", recs |-> recs]

\* with open(name, 'r') as f: json.load(f), then the top-level array.
\* err is the exception raised, "none" when the array was read.
ReadDoc(fs, name) ==
    CASE fs[name].kind = "absent" -> [err |-> "FileNotFoundError", recs |-> <<>>]
      [] fs[name].kind = "malformed" -> [err |-> "Exception", recs |-> <<>>]
      [] OTHER -> [err |-> "none", recs |-> fs[name].recs]

\* The new entry is added to whatever the document holds when it is written.
WriteDoc_AppendOnly(fs, wr, name, recs) ==
    IF wr[name]
    THEN [err |-> "none",
          fs |-> [fs EXCEPT ![name] = OkFile(Append(fs[name].recs, recs[Len(recs)]))]]
    ELSE [err |-> "Exception", fs |-> fs]

\* with open(name, 'w') as f: json.dump(doc, f): the whole document is replaced.
WriteDoc(fs, wr, name, recs) ==
    IF wr[name]
    THEN [err |-> "none", fs |-> [fs EXCEPT ![name] = OkFile(recs)]]
    ELSE [err |-> "Exception", fs |-> fs]

\* What a tool hands back: the text it returns (by kind), or the exception it
\* lets escape; with the details of the text the properties read.
\* num is the number the text reports (an entry id, a count) and items what it lists.
Returned(op, msg, num, items) ==
    [op |-> op, raised |-> FALSE, msg |-> msg, num |-> num, items |-> items]

Raised(op) ==
    [op |-> op, raised |-> TRUE, msg |-> "exception", num |-> 0, items |-> <<>>]

Outcome(fs, r, w) == [fs |-> fs, ret |-> r, written |-> w]

-----------------------------------------------------------------------------
(* save_knowledge *)

EntryId_OffByOne(recs) == Len(recs)

EntryId(recs) == Len(recs) + 1

NewEntry_IdFromClock(recs, topic, content, category, now) ==
    [id |-> now, topic |-> topic, content |-> content,
     category |-> category, timestamp |-> now, last_accessed |-> now]

NewEntry(recs, topic, content, category, now) ==
    [id |-> EntryId(recs), topic |-> topic, content |-> content,
     category |-> category, timestamp |-> now, last_accessed |-> now]

save_knowledge(fs, wr, topic, content, category, now) ==
    LET rd == ReadDoc(fs, KB)
        kb == IF rd.err = "FileNotFoundError" THEN <<>> ELSE rd.recs
        entry == NewEntry(kb, topic, content, category, now)
        wrt == WriteDoc(fs, wr, KB, Append(kb, entry))
    IN  IF rd.err = "Exception"
        THEN Outcome(fs, Returned("save_knowledge", "Error saving knowledge", 0, <<>>), {})
        ELSE IF wrt.err # "none"
        THEN Outcome(fs, Returned("save_knowledge", "Error saving knowledge", 0, <<>>), {})
        ELSE Outcome(wrt.fs,
                     Returned("save_knowledge", "Successfully saved", entry.id, <<entry>>),
                     {KB})

-----------------------------------------------------------------------------
(* retrieve_knowledge *)

Matches_TopicOnly(query, entry) == IsSubstr(Lower(query), Lower(entry.topic))

Matches(query, entry) ==
    LET q == Lower(query)
    IN  \/ IsSubstr(q, Lower(entry.topic))
        \/ IsSubstr(q, Lower(entry.content))
        \/ IsSubstr(q, Lower(entry.category))

Touch_All(recs, query, now) ==
    [k \in 1..Len(recs) |-> [recs[k] EXCEPT !.last_accessed = now]]

\* The loop of lines 93-98: every matching entry is touched in place.
Touch(recs, query, now) ==
    [k \in 1..Len(recs) |->
        IF Matches(query, recs[k])
        THEN [recs[k] EXCEPT !.last_accessed = now]
        ELSE recs[k]]

\* The document is written back whether or not anything matched.
retrieve_knowledge_WritesAlways(fs, wr, query, now) ==
    LET rd == ReadDoc(fs, KB)
        kb == Touch(rd.recs, query, now)
        IsMatch(e) == Matches(query, e)
        matches == SelectSeq(kb, IsMatch)
        wrt == WriteDoc(fs, wr, KB, kb)
    IN  CASE rd.err = "FileNotFoundError" ->
                Outcome(fs, Returned("retrieve_knowledge", "Knowledge base is empty", 0, <<>>), {})
          [] rd.err = "Exception" ->
                Outcome(fs, Returned("retrieve_knowledge", "Error retrieving knowledge", 0, <<>>), {})
          [] wrt.err # "none" ->
                Outcome(fs, Returned("retrieve_knowledge", "Error retrieving knowledge", 0, <<>>), {})
          [] matches = <<>> ->
                Outcome(wrt.fs, Returned("retrieve_knowledge", "No knowledge found", 0, <<>>), {KB})
          [] OTHER ->
                Outcome(wrt.fs, Returned("retrieve_knowledge", "Found", Len(matches), <<>>), {KB})

retrieve_knowledge(fs, wr, query, now) ==
    LET rd == ReadDoc(fs, KB)
        kb == Touch(rd.recs, query, now)
        IsMatch(e) == Matches(query, e)
        matches == SelectSeq(kb, IsMatch)
        wrt == WriteDoc(fs, wr, KB, kb)
    IN  CASE rd.err = "FileNotFoundError" ->
                Outcome(fs, Returned("retrieve_knowledge", "Knowledge base is empty", 0, <<>>), {})
          [] rd.err = "Exception" ->
                Outcome(fs, Returned("retrieve_knowledge", "Error retrieving knowledge", 0, <<>>), {})
          [] matches = <<>> ->
                Outcome(fs, Returned("retrieve_knowledge", "No knowledge found", 0, <<>>), {})
          [] wrt.err # "none" ->
                Outcome(fs, Returned("retrieve_knowledge", "Error retrieving knowledge", 0, <<>>), {})
          [] OTHER ->
                Outcome(wrt.fs,
                        Returned("retrieve_knowledge", "Found", Len(matches),
                                 [k \in 1..Len(matches) |->
                                    [topic |-> matches[k].topic,
                                     category |-> matches[k].category,
                                     content |-> matches[k].content,
                                     saved |-> matches[k].timestamp]]),
                        {KB})

-----------------------------------------------------------------------------
(* list_knowledge_categories *)

\* The keys of the `categories` dict.
CategoriesOf(recs) == {recs[k].category : k \in 1..Len(recs)}

RECURSIVE SortStrs_Descending(_)
SortStrs_Descending(S) ==
    IF S = {} THEN <<>>
    ELSE LET m == CHOOSE x \in S : \A y \in S \ {x} : StrLess(y, x)
         IN  <<m>> \o SortStrs_Descending(S \ {m})

\* sorted(): ascending by StrLess.
RECURSIVE SortStrs(_)
SortStrs(S) ==
    IF S = {} THEN <<>>
    ELSE LET m == CHOOSE x \in S : \A y \in S \ {x} : StrLess(x, y)
         IN  <<m>> \o SortStrs(S \ {m})

\* categories[cat]: the topics appended in the order of the entries.
TopicsOf(recs, cat) ==
    LET InCat(e) == e.category = cat
        es == SelectSeq(recs, InCat)
    IN  [k \in 1..Len(es) |-> es[k].topic]

list_knowledge_categories(fs) ==
    LET rd == ReadDoc(fs, KB)
        cats == SortStrs(CategoriesOf(rd.recs))
    IN  CASE rd.err = "FileNotFoundError" ->
                Outcome(fs, Returned("list_knowledge_categories", "Knowledge base is empty", 0, <<>>), {})
          [] rd.err = "Exception" ->
                Outcome(fs, Returned("list_knowledge_categories", "Error listing knowledge", 0, <<>>), {})
          [] rd.recs = <<>> ->
                Outcome(fs, Returned("list_knowledge_categories", "Knowledge base is empty", 0, <<>>), {})
          [] OTHER ->
                Outcome(fs,
                        Returned("list_knowledge_categories", "Knowledge Base", Len(rd.recs),
                                 [g \in 1..Len(cats) |->
                                    [cat |-> cats[g],
                                     header |-> Upper(cats[g]),
                                     count |-> Len(TopicsOf(rd.recs, cats[g])),
                                     topics |-> TopicsOf(rd.recs, cats[g])]]),
                        {})

-----------------------------------------------------------------------------
(* The inputs the tools are called with. *)

Topics == {<<"A", "b">>, <<"c">>}
Contents == {<<"b", "C">>, <<"d">>}
Categories == {<<"M">>, <<"b", "i">>}
Queries == {<<"a", "B">>, <<"c">>, <<"m">>, <<"b">>, <<"z">>}

NoCall == [op |-> "none", raised |-> FALSE, msg |-> "", num |-> 0, items |-> <<>>]

Call(op, args) == [op |-> op, args |-> args]

-----------------------------------------------------------------------------
(* Tool invocations, one at a time. *)

Init ==
    /\ files = [d \in DocNames |-> AbsentFile]
    /\ writable = [d \in DocNames |-> TRUE]
    /\ clock = 1
    /\ call = Call("none", <<>>)
    /\ ret = NoCall
    /\ written = {}
    /\ saved = <<>>
    /\ sessions = <<>>
    /\ req = <<>>
    /\ nextOid = 0
    /\ appended = <<>>
    /\ task = <<>>

Confirmation(r, topic, content, category) ==
    [id |-> r.num, topic |-> topic, content |-> content, category |-> category]

Save(topic, content, category) ==
    /\ clock <= MaxClock
    /\ Len(files[KB].recs) < MaxEntries
    /\ LET out == save_knowledge(files, writable, topic, content, category, clock)
       IN  /\ files' = out.fs
           /\ ret' = out.ret
           /\ written' = out.written
           /\ saved' = IF out.ret.msg = "Successfully saved"
                       THEN Append(saved, Confirmation(out.ret, topic, content, category))
                       ELSE saved
    /\ call' = Call("save_knowledge", <<topic, content, category>>)
    /\ clock' = clock + 1
    /\ UNCHANGED <<writable, chatVars, task>>

Retrieve(query) ==
    /\ LET out == retrieve_knowledge(files, writable, query, clock)
           touched == \E k \in 1..Len(files[KB].recs) : Matches(query, files[KB].recs[k])
       IN  /\ touched => clock <= MaxClock
           /\ files' = out.fs
           /\ ret' = out.ret
           /\ written' = out.written
           /\ clock' = IF touched THEN clock + 1 ELSE clock
    /\ call' = Call("retrieve_knowledge", <<query>>)
    /\ UNCHANGED <<writable, saved, chatVars, task>>

ListCategories ==
    /\ LET out == list_knowledge_categories(files)
       IN  /\ files' = out.fs
           /\ ret' = out.ret
           /\ written' = out.written
    /\ call' = Call("list_knowledge_categories", <<>>)
    /\ UNCHANGED <<writable, clock, saved, chatVars, task>>

Next ==
    \/ \E t \in Topics, c \in Contents, g \in Categories : Save(t, c, g)
    \/ \E q \in Queries : Retrieve(q)
    \/ ListCategories

Spec == Init /\ [][Next]_vars

\* The same tools on an environment whose knowledge document may already
\* exist with no entries: {"entries": []}.
InitSeeded ==
    /\ files \in {[d \in DocNames |-> IF d = KB THEN f ELSE AbsentFile] :
                     f \in {AbsentFile, OkFile(<<>>)}}
    /\ writable = [d \in DocNames |-> TRUE]
    /\ clock = 1
    /\ call = Call("none", <<>>)
    /\ ret = NoCall
    /\ written = {}
    /\ saved = <<>>
    /\ sessions = <<>>
    /\ req = <<>>
    /\ nextOid = 0
    /\ appended = <<>>
    /\ task = <<>>

SpecSeeded == InitSeeded /\ [][Next]_vars

-----------------------------------------------------------------------------
(* The chat endpoint and the conversation history. *)

Procs == {"p1", "p2"}

HistoryLimit == 20

Hi == <<"h", "i">>
Ok == <<"o", "k">>

SessionIds == {"default", "s1"}

\* dict.get(key, default) on the request's JSON object.
Get(data, key, default) == IF key \in DOMAIN data THEN data[key] ELSE default

\* `not user_message`: the message is missing (so '') or empty.
Rejects_Never(message) == FALSE

Rejects(message) == message = <<>>

HumanMessage(content, oid) == [role |-> "human", content |-> content, oid |-> oid]
AIMessage(content, oid) == [role |-> "ai", content |-> content, oid |-> oid]

\* conversation_sessions[session_id] = []
SessionCreated(sess, sid) ==
    [s \in DOMAIN sess \cup {sid} |-> IF s = sid THEN <<>> ELSE sess[s]]

\* list.extend([HumanMessage(content=user_message), ai_response])
Extended(list, human, ai) == list \o <<human, ai>>

\* list[-20:]
LastMessages_First(list) ==
    IF Len(list) <= HistoryLimit THEN list ELSE SubSeq(list, 1, HistoryLimit)

LastMessages(list) ==
    IF Len(list) <= HistoryLimit THEN list
    ELSE SubSeq(list, Len(list) - HistoryLimit + 1, Len(list))

NoMessage == [role |-> "none", content |-> <<>>, oid |-> 0]

Idle ==
    [pc |-> "idle", route |-> "none", data |-> [session_id |-> "none"],
     status |-> 0, success |-> "absent", invoked |-> FALSE,
     human |-> NoMessage, reply |-> NoMessage, slice |-> <<>>, before |-> <<>>]

\* jsonify(...), status: the request is answered and the thread is free again.
Responded(r, status, success) ==
    [r EXCEPT !.pc = "idle", !.status = status, !.success = success,
              !.slice = <<>>, !.before = <<>>]

InFlight == {q \in Procs : req[q].pc \in {"create", "invoke", "append"}}

SidOf(data) == Get(data, "session_id", "default")

\* Lines 876-884: the request is parsed and rejected with 400 when it carries
\* no message; otherwise the session is looked up.
ChatBegin(p, data, maxTurns) ==
    /\ req[p].pc = "idle"
    /\ LET r == [Idle EXCEPT !.route = "chat", !.data = data, !.before = sessions]
       IN  IF Rejects(Get(data, "message", <<>>))
           THEN req' = [req EXCEPT ![p] = Responded(r, 400, "absent")]
           ELSE /\ nextOid + 2 * Cardinality(InFlight) < 2 * maxTurns
                /\ req' = [req EXCEPT ![p] =
                            [r EXCEPT !.pc = IF SidOf(data) \notin DOMAIN sessions
                                             THEN "create" ELSE "invoke"]]
    /\ UNCHANGED <<sessions, nextOid, appended, toolVars, task>>

\* Line 885.
ChatCreate(p) ==
    /\ req[p].pc = "create"
    /\ sessions' = SessionCreated(sessions, SidOf(req[p].data))
    /\ appended' = [appended EXCEPT ![SidOf(req[p].data)] = <<>>]
    /\ req' = [req EXCEPT ![p].pc = "invoke"]
    /\ UNCHANGED <<nextOid, toolVars, task>>

\* Lines 887-895: the agent answers or raises; an exception is answered by
\* the handler of lines 912-916.
ChatInvoke(p, outcome) ==
    /\ req[p].pc = "invoke"
    /\ req' = [req EXCEPT ![p] =
                IF outcome = "raise"
                THEN Responded([req[p] EXCEPT !.invoked = TRUE], 500, "false")
                ELSE [req[p] EXCEPT !.invoked = TRUE, !.pc = "append"]]
    /\ UNCHANGED <<sessions, nextOid, appended, toolVars, task>>

\* Lines 898-901. The turn's two message objects are numbered as they enter
\* the history.
ChatAppend(p) ==
    /\ req[p].pc = "append"
    /\ LET sid == SidOf(req[p].data)
           human == HumanMessage(req[p].data.message, nextOid + 1)
           reply == AIMessage(Ok, nextOid + 2)
       IN  /\ sessions' = [sessions EXCEPT ![sid] = Extended(@, human, reply)]
           /\ appended' = [appended EXCEPT ![sid] = Extended(@, human, reply)]
           /\ req' = [req EXCEPT ![p].pc = "len", ![p].human = human,
                                 ![p].reply = reply]
    /\ nextOid' = nextOid + 2
    /\ UNCHANGED <<toolVars, task>>

\* Line 904, and lines 907-910 when there is nothing to trim.
ChatLen(p) ==
    /\ req[p].pc = "len"
    /\ req' = [req EXCEPT ![p] =
                IF Len(sessions[SidOf(req[p].data)]) > HistoryLimit
                THEN [req[p] EXCEPT !.pc = "slice"]
                ELSE Responded(req[p], 200, "true")]
    /\ UNCHANGED <<sessions, nextOid, appended, toolVars, task>>

\* Line 905, right-hand side.
ChatSlice(p) ==
    /\ req[p].pc = "slice"
    /\ req' = [req EXCEPT ![p].pc = "assign",
                          ![p].slice = LastMessages(sessions[SidOf(req[p].data)])]
    /\ UNCHANGED <<sessions, nextOid, appended, toolVars, task>>

\* The trim done in one step: the list is sliced as it is when it is assigned.
Assigned_Atomic(sess, sid, slice) == [sess EXCEPT ![sid] = LastMessages(sess[sid])]

\* conversation_sessions[session_id] = <the slice read before>
Assigned(sess, sid, slice) == [sess EXCEPT ![sid] = slice]

\* Line 905, the assignment, and lines 907-910.
ChatAssign(p) ==
    /\ req[p].pc = "assign"
    /\ sessions' = Assigned(sessions, SidOf(req[p].data), req[p].slice)
    /\ req' = [req EXCEPT ![p] = Responded(req[p], 200, "true")]
    /\ UNCHANGED <<nextOid, appended, toolVars, task>>

Cleared_All(sess, sid) == [s \in DOMAIN sess |-> <<>>]

\* Lines 925-926: the session's list is replaced by an empty one, if it has one.
Cleared(sess, sid) ==
    IF sid \in DOMAIN sess THEN [sess EXCEPT ![sid] = <<>>] ELSE sess

\* clear_history, lines 919-928.
ClearHistory(p, data) ==
    /\ req[p].pc = "idle"
    /\ LET sid == SidOf(data)
       IN  /\ sessions' = Cleared(sessions, sid)
           /\ appended' = IF sid \in DOMAIN sessions
                          THEN [appended EXCEPT ![sid] = <<>>]
                          ELSE appended
    /\ req' = [req EXCEPT ![p] =
                Responded([Idle EXCEPT !.route = "clear", !.data = data], 200, "true")]
    /\ UNCHANGED <<nextOid, toolVars, task>>

ChatRequests ==
    {[message |-> m, session_id |-> "s1"] : m \in {<<>>, Hi}}
        \cup {[message |-> Hi], [session_id |-> "s1"]}

ClearRequests == {[session_id |-> "s1"], [message |-> <<>>]}

InitChat ==
    /\ files = [d \in DocNames |-> AbsentFile]
    /\ writable = [d \in DocNames |-> TRUE]
    /\ clock = 1
    /\ call = Call("none", <<>>)
    /\ ret = NoCall
    /\ written = {}
    /\ saved = <<>>
    /\ sessions = [s \in {} |-> <<>>]
    /\ req = [p \in Procs |-> Idle]
    /\ nextOid = 0
    /\ appended = [s \in SessionIds |-> <<>>]
    /\ task = <<>>

ChatStep(p, requests, outcomes, maxTurns) ==
    \/ \E data \in requests : ChatBegin(p, data, maxTurns)
    \/ ChatCreate(p)
    \/ \E outcome \in outcomes : ChatInvoke(p, outcome)
    \/ ChatAppend(p)
    \/ ChatLen(p)
    \/ ChatSlice(p)
    \/ ChatAssign(p)

\* One request at a time: a single thread serves chat and clear requests.
NextChat ==
    \/ ChatStep("p1", ChatRequests, {"reply", "raise"}, MaxTurns)
    \/ \E data \in ClearRequests : ClearHistory("p1", data)

SpecChat == InitChat /\ [][NextChat]_vars

\* Two threads serve chat requests for one session id at the same time; each
\* step is one access to the shared session map.
RaceRequests == {[message |-> Hi, session_id |-> "s1"]}

NextChatRace == \E p \in Procs : ChatStep(p, RaceRequests, {"reply", "raise"}, MaxRaceTurns)

SpecChatRace == InitChat /\ [][NextChatRace]_vars

-----------------------------------------------------------------------------
(* Tool calls that overlap on the knowledge document: each whole-file read *)
(* and each whole-file write is one step.                                  *)

IdleTask == [pc |-> "idle", op |-> "none", args |-> <<>>, kb |-> <<>>,
             entry |-> <<>>, ret |-> NoCall]

\* save_knowledge, lines 58-71: the document is read and the entry is built.
SaveRead(p, topic, content, category) ==
    /\ task[p].pc = "idle"
    /\ clock <= MaxRaceClock
    /\ Len(files[KB].recs) < MaxRaceEntries
    /\ LET rd == ReadDoc(files, KB)
           kb == IF rd.err = "FileNotFoundError" THEN <<>> ELSE rd.recs
           t == [IdleTask EXCEPT !.op = "save_knowledge",
                                 !.args = <<topic, content, category>>]
       IN  task' = [task EXCEPT ![p] =
                IF rd.err = "Exception"
                THEN [t EXCEPT !.ret = Returned("save_knowledge",
                                                "Error saving knowledge", 0, <<>>)]
                ELSE [t EXCEPT !.pc = "write", !.kb = kb,
                               !.entry = NewEntry(kb, topic, content, category, clock)]]
    /\ clock' = clock + 1
    /\ UNCHANGED <<files, writable, call, ret, written, saved, chatVars>>

\* save_knowledge, lines 73-80: the snapshot with the new entry is written.
SaveWrite(p) ==
    /\ task[p].pc = "write"
    /\ task[p].op = "save_knowledge"
    /\ LET wrt == WriteDoc(files, writable, KB, Append(task[p].kb, task[p].entry))
           r == IF wrt.err # "none"
                THEN Returned("save_knowledge", "Error saving knowledge", 0, <<>>)
                ELSE Returned("save_knowledge", "Successfully saved",
                              task[p].entry.id, <<task[p].entry>>)
       IN  /\ files' = wrt.fs
           /\ task' = [task EXCEPT ![p].pc = "idle", ![p].ret = r]
           /\ saved' = IF wrt.err = "none"
                       THEN Append(saved, Confirmation(r, task[p].args[1],
                                                       task[p].args[2], task[p].args[3]))
                       ELSE saved
    /\ UNCHANGED <<writable, clock, call, ret, written, chatVars>>

RaceContents == {<<"d">>}
RaceCategories == {<<"M">>}

InitSaveRace ==
    /\ files = [d \in DocNames |-> AbsentFile]
    /\ writable = [d \in DocNames |-> TRUE]
    /\ clock = 1
    /\ call = Call("none", <<>>)
    /\ ret = NoCall
    /\ written = {}
    /\ saved = <<>>
    /\ sessions = <<>>
    /\ req = <<>>
    /\ nextOid = 0
    /\ appended = <<>>
    /\ task = [p \in Procs |-> IdleTask]

NextSaveRace ==
    \E p \in Procs :
        \/ \E t \in Topics, c \in RaceContents, g \in RaceCategories :
              SaveRead(p, t, c, g)
        \/ SaveWrite(p)

SpecSaveRace == InitSaveRace /\ [][NextSaveRace]_vars

-----------------------------------------------------------------------------
(* Saves and retrieves that overlap on the knowledge document. *)

\* retrieve_knowledge, lines 87-98: the document is read and the matching
\* entries are touched in memory; without a match (or a document) the call
\* returns here.
RetrieveRead(p, query) ==
    /\ task[p].pc = "idle"
    /\ LET rd == ReadDoc(files, KB)
           kb == Touch(rd.recs, query, clock)
           hit == \E k \in 1..Len(rd.recs) : Matches(query, rd.recs[k])
           t == [IdleTask EXCEPT !.op = "retrieve_knowledge", !.args = <<query>>]
           Back(msg) == [t EXCEPT !.ret = Returned("retrieve_knowledge", msg, 0, <<>>)]
       IN  /\ (rd.err = "none" /\ hit) => clock <= MaxRaceClock
           /\ task' = [task EXCEPT ![p] =
                CASE rd.err = "FileNotFoundError" -> Back("Knowledge base is empty")
                  [] rd.err = "Exception" -> Back("Error retrieving knowledge")
                  [] ~hit -> Back("No knowledge found")
                  [] OTHER -> [t EXCEPT !.pc = "write", !.kb = kb]]
           /\ clock' = IF rd.err = "none" /\ hit THEN clock + 1 ELSE clock
    /\ UNCHANGED <<files, writable, call, ret, written, saved, chatVars>>

\* retrieve_knowledge, lines 100-111: the touched snapshot is written back.
RetrieveWrite(p) ==
    /\ task[p].pc = "write"
    /\ task[p].op = "retrieve_knowledge"
    /\ LET wrt == WriteDoc(files, writable, KB, task[p].kb)
           IsMatch(e) == Matches(task[p].args[1], e)
           r == IF wrt.err # "none"
                THEN Returned("retrieve_knowledge", "Error retrieving knowledge", 0, <<>>)
                ELSE Returned("retrieve_knowledge", "Found",
                              Len(SelectSeq(task[p].kb, IsMatch)), <<>>)
       IN  /\ files' = wrt.fs
           /\ task' = [task EXCEPT ![p].pc = "idle", ![p].ret = r]
    /\ UNCHANGED <<writable, clock, call, ret, written, saved, chatVars>>

RaceQueries == {<<"c">>, <<"z">>}

NextKbRace ==
    \E p \in Procs :
        \/ \E t \in Topics, c \in RaceContents, g \in RaceCategories :
              SaveRead(p, t, c, g)
        \/ SaveWrite(p)
        \/ \E q \in RaceQueries : RetrieveRead(p, q)
        \/ RetrieveWrite(p)

SpecKbRace == InitSaveRace /\ [][NextKbRace]_vars

-----------------------------------------------------------------------------
(* Text operations of the artifact generators. *)

IsSpace(c) == c \in {" ", "\n"}

IsTerminator(c) == c \in {".", "!", "?"}

RECURSIVE LStrip(_)
LStrip(s) == IF s = <<>> \/ ~IsSpace(Head(s)) THEN s ELSE LStrip(Tail(s))

RECURSIVE RStrip(_)
RStrip(s) ==
    IF s = <<>> \/ ~IsSpace(s[Len(s)]) THEN s ELSE RStrip(SubSeq(s, 1, Len(s) - 1))

\* str.strip()
Strip(s) == RStrip(LStrip(s))

RECURSIVE Ascending(_)
\* The members of a set of integers, smallest first.
Ascending(S) ==
    IF S = {} THEN <<>>
    ELSE LET lo == CHOOSE x \in S : \A y \in S : x <= y
         IN  <<lo>> \o Ascending(S \ {lo})

\* Where the pieces between runs of terminators start; Len(s) + 1 stands for
\* the empty piece after a closing run (or for the empty string's only piece).
PieceStarts(s) ==
    {i \in 1..(Len(s) + 1) :
        /\ i = 1 \/ IsTerminator(s[i - 1])
        /\ i = Len(s) + 1 \/ ~IsTerminator(s[i])}

\* The piece that starts at i, up to the next terminator.
PieceAt(s, i) ==
    LET stops == {t \in i..Len(s) : IsTerminator(s[t])}
    IN  IF stops = {} THEN SubSeq(s, i, Len(s))
        ELSE SubSeq(s, i, (CHOOSE t \in stops : \A u \in stops : t <= u) - 1)

\* re.split(r'[.!?]+', s): an empty piece comes first when s opens with a terminator.
ReSplit(s) ==
    LET starts == Ascending(PieceStarts(s))
    IN  (IF s # <<>> /\ IsTerminator(s[1]) THEN <<<<>>>> ELSE <<>>)
        \o [j \in 1..Len(starts) |-> PieceAt(s, starts[j])]

RECURSIVE WordsFrom(_, _, _, _)
WordsFrom(s, i, cur, acc) ==
    IF i > Len(s) THEN (IF cur = <<>> THEN acc ELSE Append(acc, cur))
    ELSE IF IsSpace(s[i])
         THEN WordsFrom(s, i + 1, <<>>, IF cur = <<>> THEN acc ELSE Append(acc, cur))
         ELSE WordsFrom(s, i + 1, Append(cur, s[i]), acc)

\* str.split()
Words(s) == WordsFrom(s, 1, <<>>, <<>>)

RECURSIVE JoinWords(_)
\* ' '.join(words)
JoinWords(ws) ==
    IF ws = <<>> THEN <<>>
    ELSE IF Len(ws) = 1 THEN ws[1]
    ELSE ws[1] \o <<" ">> \o JoinWords(Tail(ws))

\* seq[:n]
Prefix(seq, n) ==
    IF n >= 0 THEN SubSeq(seq, 1, IF n < Len(seq) THEN n ELSE Len(seq))
    ELSE SubSeq(seq, 1, Len(seq) + n)

\* s.split(sub, 1)[0]: what precedes the first occurrence of sub, all of s if none.
Before(s, sub) ==
    LET at == {i \in 1..(Len(s) - Len(sub) + 1) : SubSeq(s, i, i + Len(sub) - 1) = sub}
    IN  IF at = {} THEN s
        ELSE SubSeq(s, 1, (CHOOSE i \in at : \A j \in at : i <= j) - 1)

LongEnough_AtLeast(s) == Len(s) >= 20

\* len(s.strip()) > 20
LongEnough(s) == Len(s) > 20

RECURSIVE SelectLong(_)
SelectLong(frags) ==
    IF frags = <<>> THEN <<>>
    ELSE LET f == Strip(Head(frags))
         IN  (IF LongEnough(f) THEN <<f>> ELSE <<>>) \o SelectLong(Tail(frags))

\* [s.strip() for s in re.split(r'[.!?]+', content) if len(s.strip()) > 20]
Sentences(content) == SelectLong(ReSplit(content))

-----------------------------------------------------------------------------
(* create_flashcards *)

\* Lines 484-490: the question asked about a sentence; form is the template.
Question(sentence, words) ==
    IF \E word \in {<<"i","s">>, <<"a","r","e">>, <<"w","a","s">>, <<"w","e","r","e">>} :
          IsSubstr(word, Lower(sentence))
    THEN [form |-> "What ... is?", text |-> Strip(Before(sentence, <<"i","s">>))]
    ELSE IF IsSubstr(<<"b","e","c","a","u","s","e">>, Lower(sentence))
    THEN [form |-> "Why ...?",
          text |-> Strip(Before(sentence, <<"b","e","c","a","u","s","e">>))]
    ELSE [form |-> "Explain: ...", text |-> JoinWords(Prefix(words, 6))]

RECURSIVE CardsFrom(_, _)
\* Lines 480-498: one card for each of the chosen sentences that has more
\* than five words, numbered by the sentence's position.
CardsFrom(chosen, i) ==
    IF i > Len(chosen) THEN <<>>
    ELSE LET words == Words(chosen[i])
         IN  (IF Len(words) > 5
              THEN <<[id |-> i, question |-> Question(chosen[i], words),
                      answer |-> chosen[i]]>>
              ELSE <<>>) \o CardsFrom(chosen, i + 1)

Deck(topic, cards, now) ==
    [topic |-> topic, cards |-> cards, created |-> now, total_cards |-> Len(cards)]

AppendRecord_Replace(fs, wr, name, op, rec, text) ==
    LET rd == ReadDoc(fs, name)
    IN  IF rd.err = "Exception" THEN Outcome(fs, Raised(op), {})
        ELSE LET wrt == WriteDoc(fs, wr, name, <<rec>>)
             IN  IF wrt.err # "none" THEN Outcome(fs, Raised(op), {})
                 ELSE Outcome(wrt.fs, text, {name})

\* Lines 352-365, 451-465, 526-540, 614-628: the generator's document is read
\* (an absent one counts as empty), the record is appended and the document is
\* written back; nothing but FileNotFoundError is caught.
AppendRecord(fs, wr, name, op, rec, text) ==
    LET rd == ReadDoc(fs, name)
    IN  IF rd.err = "Exception" THEN Outcome(fs, Raised(op), {})
        ELSE LET wrt == WriteDoc(fs, wr, name, Append(rd.recs, rec))
             IN  IF wrt.err # "none" THEN Outcome(fs, Raised(op), {})
                 ELSE Outcome(wrt.fs, text, {name})

create_flashcards_WritesFirst(fs, wr, topic, content, num_cards, now) ==
    LET sentences == Sentences(content)
        flashcards == CardsFrom(Prefix(sentences, num_cards), 1)
        saved_ == AppendRecord(fs, wr, FLASHCARDS, "create_flashcards",
                               Deck(topic, flashcards, now),
                               Returned("create_flashcards", "FLASHCARD SET",
                                        Len(flashcards), flashcards))
    IN  IF sentences = <<>> /\ ~saved_.ret.raised
        THEN Outcome(saved_.fs, Returned("create_flashcards",
                         "Content too short to create flashcards.", 0, <<>>),
                     saved_.written)
        ELSE saved_

create_flashcards(fs, wr, topic, content, num_cards, now) ==
    LET sentences == Sentences(content)
        flashcards == CardsFrom(Prefix(sentences, num_cards), 1)
    IN  IF sentences = <<>>
        THEN Outcome(fs, Returned("create_flashcards",
                                  "Content too short to create flashcards.", 0, <<>>), {})
        ELSE AppendRecord(fs, wr, FLASHCARDS, "create_flashcards",
                          Deck(topic, flashcards, now),
                          Returned("create_flashcards", "FLASHCARD SET",
                                   Len(flashcards), flashcards))

\* Content is put together from these pieces.
Run20 == [i \in 1..20 |-> "a"]
Plain == <<"b"," ","c"," ","d"," ","e"," ","f"," ","g"," ","h"," ","i"," ","j"," ","k"," ","m">>
Padded == <<" ">> \o Run20 \o <<" ">>
Pieces == {Padded \o <<".">>, Plain \o <<"?", "!">>}

RECURSIVE Built(_)
\* The texts made of exactly n pieces.
Built(n) ==
    IF n = 0 THEN {<<>>}
    ELSE {b \o p : b \in Built(n - 1), p \in Pieces}

MaxPieces == 2
MaxDecks == 1
FlashContents == UNION {Built(n) : n \in 0..MaxPieces}
FlashTopics == {<<"t">>}
NumCards == {-1, 1, 2}

CreateFlashcards(topic, content, num_cards) ==
    /\ \E out \in {create_flashcards(files, writable, topic, content, num_cards, clock)} :
           /\ out.written # {} => Len(files[FLASHCARDS].recs) < MaxDecks
           /\ files' = out.fs
           /\ ret' = out.ret
           /\ written' = out.written
           /\ call' = Call("create_flashcards", <<topic, content, num_cards>>)
           /\ clock' = IF out.written = {} THEN clock ELSE clock + 1
    /\ UNCHANGED <<writable, saved, chatVars, task>>

InitFlash ==
    /\ \E f \in {AbsentFile, MalformedFile}, w \in BOOLEAN :
          /\ files = [d \in DocNames |-> IF d = FLASHCARDS THEN f ELSE AbsentFile]
          /\ writable = [d \in DocNames |-> IF d = FLASHCARDS THEN w ELSE TRUE]
    /\ clock = 1
    /\ call = Call("none", <<>>)
    /\ ret = NoCall
    /\ written = {}
    /\ saved = <<>>
    /\ sessions = <<>>
    /\ req = <<>>
    /\ nextOid = 0
    /\ appended = <<>>
    /\ task = <<>>

NextFlash ==
    \E t \in FlashTopics, c \in FlashContents, n \in NumCards :
        CreateFlashcards(t, c, n)

SpecFlash == InitFlash /\ [][NextFlash]_vars

-----------------------------------------------------------------------------
(* The lookup tools and the other artifact generators. *)

\* What the outbound request comes to: a 200 response with the expected body,
\* a 200 response whose body cannot be used, another status, or an exception
\* of the request (time-out, no connection).
Responses == {"ok", "bad_body", "not_found", "error"}

search_wikipedia(query, response, now) ==
    CASE response = "ok" ->
            Returned("search_wikipedia", "Citation", now, <<query>>)
      [] response = "not_found" ->
            Returned("search_wikipedia", "Could not find information", 0, <<query>>)
      [] OTHER ->
            Returned("search_wikipedia", "Error searching Wikipedia", 0, <<>>)

translate_text(text, target_language, response) ==
    CASE response = "ok" ->
            Returned("translate_text", "Translation to", 0, <<text, target_language>>)
      [] response = "not_found" ->
            Returned("translate_text", "Translation failed", 0, <<>>)
      [] OTHER ->
            Returned("translate_text", "Error translating", 0, <<>>)

VocabWord(word, now) == [word |-> word, definition |-> "definition", added |-> now]

vocabulary_builder(fs, wr, word, action, response, now) ==
    LET failed == Outcome(fs, Returned("vocabulary_builder", "Error looking up word",
                                       0, <<>>), {})
        defined == Returned("vocabulary_builder", "Definition", 0, <<Upper(word)>>)
    IN  CASE response = "not_found" ->
                Outcome(fs, Returned("vocabulary_builder", "Could not find definition",
                                     0, <<word>>), {})
          [] response \in {"bad_body", "error"} -> failed
          [] OTHER ->
                IF action # "save" THEN Outcome(fs, defined, {})
                ELSE LET rd == ReadDoc(fs, VOCAB)
                     IN  IF rd.err = "Exception" THEN failed
                         ELSE LET wrt == WriteDoc(fs, wr, VOCAB,
                                                  Append(rd.recs, VocabWord(word, now)))
                              IN  IF wrt.err # "none" THEN failed
                                  ELSE Outcome(wrt.fs,
                                               [defined EXCEPT !.msg = "Added to your vocabulary list"],
                                               {VOCAB})

RECURSIVE LinesFrom(_, _, _, _)
LinesFrom(s, i, cur, acc) ==
    IF i > Len(s) THEN Append(acc, cur)
    ELSE IF s[i] = "\n" THEN LinesFrom(s, i + 1, <<>>, Append(acc, cur))
         ELSE LinesFrom(s, i + 1, Append(cur, s[i]), acc)

\* notes.split('\n')
SplitLines(s) == LinesFrom(s, 1, <<>>, <<>>)

RECURSIVE ConceptsFrom(_)
\* Lines 320-325: the stripped lines of more than 10 characters, cut at 80.
ConceptsFrom(lines) ==
    IF lines = <<>> THEN <<>>
    ELSE LET line == Strip(Head(lines))
         IN  (IF Len(line) > 10 THEN <<Prefix(line, 80)>> ELSE <<>>)
             \o ConceptsFrom(Tail(lines))

\* Lines 337-344: a branch, with its first two groups of three words when
\* the concept has more than five words.
Branch(concept) ==
    LET words == Words(concept)
    IN  [concept |-> concept,
         subs |-> IF Len(words) > 5
                  THEN <<JoinWords(SubSeq(words, 1, 3)), JoinWords(SubSeq(words, 4, 6))>>
                  ELSE <<>>]

MindMap(topic, notes) ==
    LET concepts == ConceptsFrom(SplitLines(notes))
        shown == Prefix(concepts, 6)
    IN  [title |-> Upper(topic), center |-> Prefix(topic, 15),
         branches |-> [i \in 1..Len(shown) |-> Branch(shown[i])],
         total |-> Len(concepts)]

create_mindmap(fs, wr, topic, notes, now) ==
    LET mindmap == MindMap(topic, notes)
    IN  AppendRecord(fs, wr, MINDMAPS, "create_mindmap",
                     [topic |-> topic, created |-> now, structure |-> mindmap],
                     Returned("create_mindmap", "MIND MAP", mindmap.total,
                              mindmap.branches))

idea_expander(fs, wr, seed_idea, now) ==
    AppendRecord(fs, wr, IDEAS, "idea_expander",
                 [seed |-> seed_idea, expanded |-> <<"SEED IDEA", seed_idea>>,
                  created |-> now, status |-> "exploring"],
                 Returned("idea_expander", "SEED IDEA", 0, <<seed_idea>>))

\* str.capitalize()
Capitalize(s) ==
    IF s = <<>> THEN s ELSE <<UpperChar(s[1])>> \o Lower(Tail(s))

learning_roadmap(fs, wr, skill, current_level, now) ==
    LET roadmap == <<"LEARNING ROADMAP", Upper(skill), Capitalize(current_level)>>
    IN  AppendRecord(fs, wr, ROADMAPS, "learning_roadmap",
                     [skill |-> skill, level |-> current_level, created |-> now,
                      roadmap |-> roadmap],
                     Returned("learning_roadmap", "LEARNING ROADMAP", 0,
                              <<Upper(skill), Capitalize(current_level)>>))

-----------------------------------------------------------------------------
(* Tool invocations against documents in any condition. *)

\* One invocation: the tool's outcome becomes the state; the clock moves on
\* when the tool wrote a time stamp.
Invoke(c, out) ==
    /\ out.written # {} => clock <= MaxEnvClock
    /\ files' = out.fs
    /\ ret' = out.ret
    /\ written' = out.written
    /\ call' = c
    /\ clock' = IF out.written = {} THEN clock ELSE clock + 1
    /\ UNCHANGED <<writable, saved, chatVars, task>>

EnvText == <<"A", "b">>
EnvNotes == {<<>>, Plain \o <<"\n">> \o EnvText}
EnvContents == {Padded \o <<".">>, Plain \o <<".">>}

SaveKnowledge ==
    Invoke(Call("save_knowledge", <<EnvText, EnvText, EnvText>>),
           save_knowledge(files, writable, EnvText, EnvText, EnvText, clock))

RetrieveKnowledge(query) ==
    Invoke(Call("retrieve_knowledge", <<query>>),
           retrieve_knowledge(files, writable, query, clock))

ListKnowledgeCategories ==
    Invoke(Call("list_knowledge_categories", <<>>),
           list_knowledge_categories(files))

SearchWikipedia(query, response) ==
    Invoke(Call("search_wikipedia", <<query, response>>),
           Outcome(files, search_wikipedia(query, response, clock), {}))

TranslateText(text, response) ==
    Invoke(Call("translate_text", <<text, response>>),
           Outcome(files, translate_text(text, <<"e", "s">>, response), {}))

VocabularyBuilder(word, action, response) ==
    Invoke(Call("vocabulary_builder", <<word, action, response>>),
           vocabulary_builder(files, writable, word, action, response, clock))

CreateMindmap(topic, notes) ==
    Invoke(Call("create_mindmap", <<topic, notes>>),
           create_mindmap(files, writable, topic, notes, clock))

IdeaExpander(seed_idea) ==
    Invoke(Call("idea_expander", <<seed_idea>>),
           idea_expander(files, writable, seed_idea, clock))

FlashcardsFor(topic, content) ==
    Invoke(Call("create_flashcards", <<topic, content, 5>>),
           create_flashcards(files, writable, topic, content, 5, clock))

LearningRoadmap(skill, current_level) ==
    Invoke(Call("learning_roadmap", <<skill, current_level>>),
           learning_roadmap(files, writable, skill, current_level, clock))

\* Every document is in the same condition at the start: absent, holding
\* something that is not JSON, or holding an empty collection; and either all
\* of them can be written or none can.
InitEnv ==
    /\ \E f \in {AbsentFile, MalformedFile, OkFile(<<>>)}, w \in BOOLEAN :
          /\ files = [d \in DocNames |-> f]
          /\ writable = [d \in DocNames |-> w]
    /\ clock = 1
    /\ call = Call("none", <<>>)
    /\ ret = NoCall
    /\ written = {}
    /\ saved = <<>>
    /\ sessions = <<>>
    /\ req = <<>>
    /\ nextOid = 0
    /\ appended = <<>>
    /\ task = <<>>

NextEnv ==
    \/ SaveKnowledge
    \/ \E q \in {EnvText, <<"z">>} : RetrieveKnowledge(q)
    \/ ListKnowledgeCategories
    \/ \E r \in Responses : SearchWikipedia(EnvText, r)
    \/ \E r \in Responses : TranslateText(EnvText, r)
    \/ \E a \in {"define", "save"}, r \in Responses : VocabularyBuilder(EnvText, a, r)
    \/ \E n \in EnvNotes : CreateMindmap(EnvText, n)
    \/ IdeaExpander(EnvText)
    \/ \E c \in EnvContents : FlashcardsFor(EnvText, c)
    \/ LearningRoadmap(EnvText, <<"b", "i">>)

SpecEnv == InitEnv /\ [][NextEnv]_vars

-----------------------------------------------------------------------------
(* get_stats *)

StatsSource_IdeasFromRoadmaps ==
    [knowledge_entries |-> KB, flashcard_decks |-> FLASHCARDS, mindmaps |-> MINDMAPS,
     ideas |-> ROADMAPS, vocabulary_words |-> VOCAB]

\* Lines 943-981: the document each statistic is counted from.
StatsSource ==
    [knowledge_entries |-> KB, flashcard_decks |-> FLASHCARDS, mindmaps |-> MINDMAPS,
     ideas |-> IDEAS, vocabulary_words |-> VOCAB]

\* One of the five inner blocks: the statistic stays 0 when the document is absent.
Counted(fs, name) ==
    LET rd == ReadDoc(fs, name)
    IN  IF rd.err = "FileNotFoundError" THEN 0 ELSE Len(rd.recs)

\* The response of /api/stats: msg is the success flag, num the HTTP status.
get_stats(fs) ==
    IF \E k \in DOMAIN StatsSource : ReadDoc(fs, StatsSource[k]).err = "Exception"
    THEN Outcome(fs, Returned("get_stats", "false", 500, <<>>), {})
    ELSE Outcome(fs, Returned("get_stats", "true", 200,
                              <<[k \in DOMAIN StatsSource |-> Counted(fs, StatsSource[k])]>>),
                 {})

GetStats == Invoke(Call("get_stats", <<>>), get_stats(files))

InitStats ==
    /\ files = [d \in DocNames |-> AbsentFile]
    /\ writable = [d \in DocNames |-> TRUE]
    /\ clock = 1
    /\ call = Call("none", <<>>)
    /\ ret = NoCall
    /\ written = {}
    /\ saved = <<>>
    /\ sessions = <<>>
    /\ req = <<>>
    /\ nextOid = 0
    /\ appended = <<>>
    /\ task = <<>>

NextStats ==
    \/ NextEnv
    \/ GetStats

SpecStats == InitStats /\ [][NextStats]_vars

-----------------------------------------------------------------------------
(* universal_summarizer *)

YoutubeCom == <<"y", "o", "u", "t", "u", "b", "e", ".", "c", "o", "m">>
YoutuBe == <<"y", "o", "u", "t", "u", ".", "b", "e">>

Min(a, b) == IF a < b THEN a ELSE b
Max(a, b) == IF a > b THEN a ELSE b

\* Lines 269-274: the number of sentences aimed at.
TargetCount(summary_length, n) ==
    CASE summary_length = "short" -> Min(3, n)
      [] summary_length = "medium" -> Min(6, n)
      [] OTHER -> Min(10, n)

PickIndex_Unclamped(i, step, n) == i * step

\* Line 284: idx = min(i * step, len(sentences) - 2)
PickIndex(i, step, n) == Min(i * step, n - 2)

\* Lines 276-287: the indices of the chosen sentences; "ZeroDivisionError"
\* when the step cannot be computed.
SelectedIndices(n, num_sentences) ==
    IF n <= num_sentences THEN [err |-> "none", idx |-> 0..(n - 1)]
    ELSE IF num_sentences - 2 = 0 THEN [err |-> "ZeroDivisionError", idx |-> {}]
    ELSE LET step == Max(1, n \div (num_sentences - 2))
         IN  [err |-> "none",
              idx |-> {0, n - 1}
                        \cup {PickIndex(i, step, n) : i \in 1..(num_sentences - 2)}]

\* sentences[i] with Python's indexing: negative indices count from the end.
SentenceAt(sentences, i) ==
    IF i >= 0 THEN sentences[i + 1] ELSE sentences[Len(sentences) + i + 1]

RECURSIVE JoinSentences(_)
\* ". ".join(summary_sentences)
JoinSentences(ss) ==
    IF ss = <<>> THEN <<>>
    ELSE IF Len(ss) = 1 THEN ss[1]
    ELSE ss[1] \o <<".", " ">> \o JoinSentences(Tail(ss))

RECURSIVE KeyPoints(_)
\* Lines 291-295: the sentences of more than five words, cut at 100 characters.
KeyPoints(ss) ==
    IF ss = <<>> THEN <<>>
    ELSE (IF Len(Words(Head(ss))) > 5
          THEN <<IF Len(Head(ss)) > 100
                 THEN SubSeq(Head(ss), 1, 100) \o <<".", ".", ".">>
                 ELSE Head(ss)>>
          ELSE <<>>) \o KeyPoints(Tail(ss))

\* Lines 262-314: the extractive summary of a text.
SummarizeText(content, summary_length) ==
    LET sentences == Sentences(content)
        n == Len(sentences)
        sel == SelectedIndices(n, TargetCount(summary_length, n))
        order == Ascending(sel.idx)
    IN  IF sentences = <<>>
        THEN Returned("universal_summarizer", "Content too short to summarize.", 0, <<>>)
        ELSE IF sel.err # "none" \/ \E i \in sel.idx : ~(-n <= i /\ i < n)
        THEN Raised("universal_summarizer")
        ELSE LET summary_sentences == [j \in 1..Len(order) |-> SentenceAt(sentences, order[j])]
                 summary == JoinSentences(summary_sentences) \o <<".">>
             IN  Returned("universal_summarizer", "SUMMARY", Len(summary_sentences),
                          <<[summary_sentences |-> summary_sentences,
                             summary |-> summary,
                             key_points |-> KeyPoints(Prefix(summary_sentences, 5)),
                             original |-> [characters |-> Len(content), sentences |-> n],
                             reduced |-> [characters |-> Len(summary),
                                          sentences |-> Len(summary_sentences)]]>>)

universal_summarizer(content, content_type, summary_length) ==
    IF \/ content_type = "youtube"
       \/ IsSubstr(YoutubeCom, content)
       \/ IsSubstr(YoutuBe, content)
    THEN Returned("universal_summarizer", "VIDEO SUMMARY", 0, <<content>>)
    ELSE IF content_type = "book"
    THEN Returned("universal_summarizer", "BOOK SUMMARY", 0, <<content>>)
    ELSE SummarizeText(content, summary_length)

MaxSentences == 11

\* The i-th numbered sentence: 21 characters in one word, different for each i.
Numbered(i) ==
    Run20 \o <<<<"b", "c", "d", "e", "f", "g", "h", "i", "j", "k", "m", "n", "o", "p", "q", "r">>[i]>>

RECURSIVE TextOf(_)
\* The first n numbered sentences, each closed by a full stop.
TextOf(n) == IF n = 0 THEN <<>> ELSE TextOf(n - 1) \o Numbered(n) \o <<".">>

SummaryContents ==
    {TextOf(n) : n \in 0..MaxSentences}
        \cup {<<"h", "i", "!">> \o TextOf(2),
              Plain \o <<"?">> \o TextOf(1),
              TextOf(1) \o <<" ">> \o YoutubeCom,
              YoutuBe \o <<" ">> \o TextOf(1)}
ContentTypes == {"text", "book", "youtube"}
SummaryLengths == {"short", "medium", "long", "detailed"}

\* A summarizer call is handed in; nothing has run yet.
InitSummary ==
    /\ files = [d \in DocNames |-> AbsentFile]
    /\ writable = [d \in DocNames |-> TRUE]
    /\ clock = 1
    /\ \E c \in SummaryContents, t \in ContentTypes, l \in SummaryLengths :
          call = Call("universal_summarizer", <<c, t, l>>)
    /\ ret = NoCall
    /\ written = {}
    /\ saved = <<>>
    /\ sessions = <<>>
    /\ req = <<>>
    /\ nextOid = 0
    /\ appended = <<>>
    /\ task = <<>>

\* The call runs; the summarizer reads and writes no document.
Summarize ==
    /\ call.op = "universal_summarizer"
    /\ ret = NoCall
    /\ ret' = universal_summarizer(call.args[1], call.args[2], call.args[3])
    /\ UNCHANGED <<files, writable, clock, call, written, saved, chatVars, task>>

NextSummary == Summarize

SpecSummary == InitSummary /\ [][NextSummary]_vars

-----------------------------------------------------------------------------
(* Flashcard generation as a function of its input. *)

MaxCardPieces == 3

\* A sentence that yields a card, one of 21 characters in a single word, and
\* a fragment of 20 characters.
CardPieces == {Plain \o <<".">>, Numbered(1) \o <<"!">>, Padded \o <<".">>}

RECURSIVE CardTexts(_)
\* The texts made of exactly n of these pieces.
CardTexts(n) ==
    IF n = 0 THEN {<<>>}
    ELSE {b \o p : b \in CardTexts(n - 1), p \in CardPieces}

CardContents == UNION {CardTexts(n) : n \in 0..MaxCardPieces}
CardCounts == {-1, 0, 1, 2, 5}

\* A flashcard call is handed in; no document exists yet.
InitCards ==
    /\ files = [d \in DocNames |-> AbsentFile]
    /\ writable = [d \in DocNames |-> TRUE]
    /\ clock = 1
    /\ \E tp \in FlashTopics, c \in CardContents, n \in CardCounts :
          call = Call("create_flashcards", <<tp, c, n>>)
    /\ ret = NoCall
    /\ written = {}
    /\ saved = <<>>
    /\ sessions = <<>>
    /\ req = <<>>
    /\ nextOid = 0
    /\ appended = <<>>
    /\ task = <<>>

\* The call runs.
MakeCards ==
    /\ call.op = "create_flashcards"
    /\ ret = NoCall
    /\ \E out \in {create_flashcards(files, writable, call.args[1], call.args[2],
                                     call.args[3], clock)} :
          /\ files' = out.fs
          /\ ret' = out.ret
          /\ written' = out.written
    /\ UNCHANGED <<writable, clock, call, saved, chatVars, task>>

NextCards == MakeCards

SpecCards == InitCards /\ [][NextCards]_vars

-----------------------------------------------------------------------------
(* Properties of the knowledge document store. *)

KbRecs == files[KB].recs

\* C1: starting from an absent knowledge document, after N saves run one at a
\* time the document holds exactly N entries, the k-th stored entry is the k-th
\* save's topic, content and category with id k (so the first save creates the
\* document with one entry of id 1), and every save returns the confirmation
\* that reports the id it stored.
C1_SequentialIds ==
    /\ (files[KB].kind = "absent") <=> (saved = <<>>)
    /\ files[KB].kind # "absent" =>
          /\ files[KB].kind = "ok"
          /\ Len(KbRecs) = Len(saved)
          /\ \A k \in 1..Len(KbRecs) :
                /\ KbRecs[k].id = k
                /\ saved[k].id = k
                /\ KbRecs[k].topic = saved[k].topic
                /\ KbRecs[k].content = saved[k].content
                /\ KbRecs[k].category = saved[k].category
    /\ call.op = "save_knowledge" =>
          /\ ret.msg = "Successfully saved"
          /\ ~ret.raised
          /\ ret.num = KbRecs[Len(KbRecs)].id
          /\ saved[Len(saved)] =
                [id |-> ret.num, topic |-> call.args[1],
                 content |-> call.args[2], category |-> call.args[3]]

\* Three saves with different topics and categories have been confirmed.
C1_Witness ==
    /\ call.op = "save_knowledge"
    /\ Len(saved) = 3
    /\ Len(KbRecs) = 3
    /\ saved[1].topic # saved[2].topic
    /\ saved[2].category # saved[3].category

\* The claim's test: the lower-cased query is a substring of the lower-cased
\* topic, content or category.
IsHit(query, e) ==
    \/ IsSubstr(Lower(query), Lower(e.topic))
    \/ IsSubstr(Lower(query), Lower(e.content))
    \/ IsSubstr(Lower(query), Lower(e.category))

\* C4: a retrieve sets last_accessed (to the time of the call) on exactly the
\* entries its query hits, and changes nothing else: not the other entries'
\* last_accessed, not the number or order of the entries, not any entry's id,
\* topic, content, category or timestamp.
C4_RetrieveFrame ==
    [][call'.op = "retrieve_knowledge" =>
          /\ files'[KB].kind = files[KB].kind
          /\ Len(files'[KB].recs) = Len(files[KB].recs)
          /\ \A k \in 1..Len(files[KB].recs) :
                files'[KB].recs[k] =
                    IF IsHit(call'.args[1], files[KB].recs[k])
                    THEN [files[KB].recs[k] EXCEPT !.last_accessed = clock]
                    ELSE files[KB].recs[k]
          /\ \A d \in DocNames \ {KB} : files'[d] = files[d]]_vars

\* A retrieve has just touched one entry and left another one alone.
C4_Witness ==
    /\ call.op = "retrieve_knowledge"
    /\ ret.msg = "Found"
    /\ \E j, k \in 1..Len(KbRecs) :
          /\ IsHit(call.args[1], KbRecs[j])
          /\ KbRecs[j].last_accessed = clock - 1
          /\ KbRecs[j].last_accessed > KbRecs[j].timestamp
          /\ ~IsHit(call.args[1], KbRecs[k])
          /\ KbRecs[k].last_accessed = KbRecs[k].timestamp

\* C5: a retrieve whose query hits no stored entry returns "No knowledge found"
\* and writes nothing; a retrieve on an absent document returns "Knowledge base
\* is empty", raises nothing and leaves the document absent.
C5_RetrieveNoMatch ==
    [][call'.op = "retrieve_knowledge" =>
          /\ (files[KB].kind = "ok"
                /\ \A k \in 1..Len(files[KB].recs) :
                      ~IsHit(call'.args[1], files[KB].recs[k]))
             => /\ ret'.msg = "No knowledge found"
                /\ ~ret'.raised
                /\ written' = {}
                /\ files' = files
          /\ files[KB].kind = "absent"
             => /\ ret'.msg = "Knowledge base is empty"
                /\ ~ret'.raised
                /\ written' = {}
                /\ files' = files
                /\ files'[KB].kind = "absent"]_vars

\* A retrieve on a document of two or more entries has found nothing.
C5_Witness ==
    /\ call.op = "retrieve_knowledge"
    /\ ret.msg = "No knowledge found"
    /\ files[KB].kind = "ok"
    /\ Len(KbRecs) >= 2
    /\ written = {}

\* The positions of the entries of a category, and the i-th of them.
PositionsOf(cat) == {k \in 1..Len(KbRecs) : KbRecs[k].category = cat}

NthPosition(cat, i) ==
    CHOOSE k \in PositionsOf(cat) :
        Cardinality({j \in PositionsOf(cat) : j <= k}) = i

RECURSIVE SumCounts(_)
SumCounts(groups) ==
    IF groups = <<>> THEN 0 ELSE groups[1].count + SumCounts(Tail(groups))

\* C9: list_categories returns one group per distinct category, the groups in
\* ascending order of category (Python's string order), each with the number
\* of entries of that category and their topics in insertion order, so that
\* the counts add up to the number of entries; it returns the "empty" message
\* for an absent document and for one with no entries, and writes nothing.
C9_ListCategories ==
    call.op = "list_knowledge_categories" =>
        /\ written = {}
        /\ ~ret.raised
        /\ (files[KB].kind = "absent" \/ (files[KB].kind = "ok" /\ KbRecs = <<>>))
              => ret.msg = "Knowledge base is empty"
        /\ (files[KB].kind = "ok" /\ KbRecs # <<>>) =>
              LET G == ret.items
              IN  /\ ret.msg = "Knowledge Base"
                  /\ ret.num = Len(KbRecs)
                  /\ {G[g].cat : g \in 1..Len(G)}
                        = {KbRecs[k].category : k \in 1..Len(KbRecs)}
                  /\ \A g, h \in 1..Len(G) : g < h => StrLess(G[g].cat, G[h].cat)
                  /\ \A g \in 1..Len(G) :
                        /\ G[g].count = Cardinality(PositionsOf(G[g].cat))
                        /\ Len(G[g].topics) = G[g].count
                        /\ \A i \in 1..G[g].count :
                              G[g].topics[i] = KbRecs[NthPosition(G[g].cat, i)].topic
                  /\ SumCounts(G) = Len(KbRecs)

\* A listing of three entries in two categories whose sorted order is not the
\* order of insertion, the second group holding two entries with different topics.
C9_Witness ==
    /\ call.op = "list_knowledge_categories"
    /\ Len(KbRecs) = 3
    /\ Len(ret.items) = 2
    /\ ret.items[1].cat # KbRecs[1].category
    /\ ret.items[2].count = 2
    /\ ret.items[2].topics[1] # ret.items[2].topics[2]

\* A listing of a document that exists and holds no entries.
C9_WitnessNoEntries ==
    /\ call.op = "list_knowledge_categories"
    /\ files[KB].kind = "ok"
    /\ KbRecs = <<>>
    /\ ret.msg = "Knowledge base is empty"

-----------------------------------------------------------------------------
(* Properties of the conversation history. *)

\* The messages stored for a session id; none when the id has no session.
MsgsOf(sess, sid) == IF sid \in DOMAIN sess THEN sess[sid] ELSE <<>>

\* C2: between requests handled one at a time, every session's history has at
\* most 20 messages and is the most recent 20, oldest first, of the messages
\* appended to the session since it was last emptied; so it alternates human,
\* assistant.
C2_HistoryWindow ==
    req["p1"].pc = "idle" =>
        \A sid \in DOMAIN sessions :
            LET h == sessions[sid]
                a == appended[sid]
                dropped == IF Len(a) > 20 THEN Len(a) - 20 ELSE 0
            IN  /\ Len(h) <= 20
                /\ Len(h) = Len(a) - dropped
                /\ \A i \in 1..Len(h) :
                      /\ h[i] = a[dropped + i]
                      /\ h[i].role = IF i % 2 = 1 THEN "human" ELSE "ai"

\* A session has been trimmed: 22 messages were appended and the oldest pair is gone.
C2_Witness ==
    /\ req["p1"].pc = "idle"
    /\ \E sid \in DOMAIN sessions :
          /\ Len(appended[sid]) = 22
          /\ Len(sessions[sid]) = 20
          /\ sessions[sid][1] = appended[sid][3]
          /\ sessions[sid][20] = appended[sid][22]

\* Thread p's chat request is answered in this step.
ChatAnswered(p) ==
    /\ req'[p] # req[p]
    /\ req'[p].pc = "idle"
    /\ req'[p].route = "chat"

\* C8: a chat request that does not succeed leaves the messages of every
\* session as they were when it arrived. One without a message (missing or
\* empty) is answered 400 at once: the agent is not invoked and the session
\* map is untouched. One whose agent invocation raises is answered 500 with
\* success=false, and neither message of the turn is stored.
C8_FailedChat ==
    [][\A p \in Procs : ChatAnswered(p) =>
          LET start == IF req[p].pc = "idle" THEN sessions ELSE req[p].before
          IN  /\ req'[p].status \in {200, 400, 500}
              /\ (Get(req'[p].data, "message", <<>>) = <<>>) <=> (req'[p].status = 400)
              /\ req'[p].status = 400 =>
                    /\ req[p].pc = "idle"
                    /\ ~req'[p].invoked
                    /\ sessions' = sessions
              /\ req[p].pc = "invoke" =>
                    /\ req'[p].status = 500
                    /\ req'[p].success = "false"
                    /\ req'[p].invoked
              /\ req'[p].status # 200 =>
                    \A sid \in SessionIds :
                        MsgsOf(sessions', sid) = MsgsOf(start, sid)]_vars

\* A request on a session that holds messages has been answered 500.
C8_Witness ==
    /\ req["p1"].pc = "idle"
    /\ req["p1"].route = "chat"
    /\ req["p1"].status = 500
    /\ req["p1"].success = "false"
    /\ SidOf(req["p1"].data) \in DOMAIN sessions
    /\ Len(sessions[SidOf(req["p1"].data)]) >= 2

Stored(m, list) == \E i \in 1..Len(list) : list[i] = m

\* C7: the trim of one request (slice read, then assigned) is not atomic with
\* respect to the append of another request for the same session: when a
\* request assigns its slice after another one has appended its two messages
\* to the list the slice was read from, those two messages are no longer in
\* the stored history; and a request that has appended is answered with
\* success whether or not its messages are still stored.
C7_StaleTrim ==
    [][\A p \in Procs :
          /\ (req[p].pc = "assign" /\ req'[p].pc = "idle") =>
                LET sid == SidOf(req[p].data)
                IN  \A q \in Procs \ {p} :
                      (/\ SidOf(req[q].data) = sid
                       /\ req[q].pc = "len"
                       /\ Stored(req[q].human, sessions[sid])
                       /\ \A i \in 1..Len(req[p].slice) :
                             req[q].human.oid > req[p].slice[i].oid)
                      => /\ ~Stored(req[q].human, sessions'[sid])
                         /\ ~Stored(req[q].reply, sessions'[sid])
                         /\ Len(sessions'[sid]) <= HistoryLimit
          /\ (req[p].pc \in {"len", "assign"} /\ req'[p].pc = "idle") =>
                /\ req'[p].status = 200
                /\ req'[p].success = "true"]_vars

\* Both requests have been answered with success and the two messages of one
\* of them, the last ones appended to the session, are not in its history.
C7_Witness ==
    \E q \in Procs :
        LET sid == SidOf(req[q].data)
        IN  /\ \A p \in Procs : /\ req[p].pc = "idle"
                                /\ req[p].route = "chat"
                                /\ req[p].status = 200
                                /\ req[p].success = "true"
                                /\ SidOf(req[p].data) = sid
            /\ Len(appended[sid]) >= 2
            /\ appended[sid][Len(appended[sid]) - 1] = req[q].human
            /\ appended[sid][Len(appended[sid])] = req[q].reply
            /\ Len(sessions[sid]) = HistoryLimit
            /\ ~Stored(req[q].human, sessions[sid])
            /\ ~Stored(req[q].reply, sessions[sid])

-----------------------------------------------------------------------------
(* Properties of overlapping saves. *)

SaveConfirmed(p) ==
    /\ task[p].pc = "idle"
    /\ task[p].op = "save_knowledge"
    /\ task[p].ret.msg = "Successfully saved"

\* C3: when two saves overlap (both read the same document before either
\* wrote) and both have returned, both returned a success confirmation with
\* the same entry id, and the document holds what they read plus only one of
\* the two new entries: the other update is lost.
C3_LostUpdate ==
    \A p, q \in Procs :
        (p # q /\ SaveConfirmed(p) /\ SaveConfirmed(q) /\ task[p].kb = task[q].kb)
        => /\ task[p].ret.num = task[q].ret.num
           /\ task[p].entry # task[q].entry
           /\ files[KB].kind = "ok"
           /\ Len(KbRecs) = task[p].ret.num
           /\ \/ KbRecs = Append(task[p].kb, task[p].entry)
              \/ KbRecs = Append(task[q].kb, task[q].entry)
           /\ ~(Stored(task[p].entry, KbRecs) /\ Stored(task[q].entry, KbRecs))

\* Two saves of different topics have both been confirmed with id 2 and the
\* document holds two entries: one of the three confirmed saves is lost.
C3_Witness ==
    /\ SaveConfirmed("p1")
    /\ SaveConfirmed("p2")
    /\ task["p1"].kb = task["p2"].kb
    /\ task["p1"].ret.num = 2
    /\ task["p2"].ret.num = 2
    /\ task["p1"].args[1] # task["p2"].args[1]
    /\ Len(saved) = 3
    /\ Len(KbRecs) = 2

-----------------------------------------------------------------------------
(* Properties of the artifact generators. *)

FlashRecs == files[FLASHCARDS].recs

\* No stretch of the content that is free of '.', '!' and '?' and that starts
\* and ends with a character other than white space is longer than 20.
NoLongFragment(content) ==
    ~\E i \in 1..Len(content) :
        /\ ~IsSpace(content[i])
        /\ \E j \in (i + 20)..Len(content) :
              /\ ~IsSpace(content[j])
              /\ \A k \in i..j : ~IsTerminator(content[k])

\* C10: flashcard generation on content that has no sentence fragment longer
\* than 20 characters returns the "too short" message and leaves the
\* flashcard document as it was: nothing is written, no deck is appended and
\* an absent document stays absent.
C10_TooShort ==
    [][(call'.op = "create_flashcards" /\ NoLongFragment(call'.args[2]))
       => /\ ~ret'.raised
          /\ ret'.msg = "Content too short to create flashcards."
          /\ written' = {}
          /\ files' = files]_vars

\* Fragments of exactly 20 characters (after stripping) were handed in while
\* the document was absent, and it is still absent.
C10_Witness ==
    /\ call.op = "create_flashcards"
    /\ call.args[2] = Padded \o <<".">>
    /\ ret.msg = "Content too short to create flashcards."
    /\ files[FLASHCARDS] = AbsentFile

\* The same with a document that already holds a deck: it still holds just that.
C10_WitnessDeck ==
    /\ call.op = "create_flashcards"
    /\ call.args[2] = Padded \o <<".">> \o Padded \o <<".">>
    /\ ret.msg = "Content too short to create flashcards."
    /\ Len(FlashRecs) = 1
    /\ FlashRecs[1].total_cards = 1

Generators == {"create_mindmap", "idea_expander", "create_flashcards", "learning_roadmap"}

\* C6: every tool invocation returns a text result and never raises to its
\* caller, whatever the condition of the document it touches and whatever the
\* outcome of its outbound request; the artifact generators included.
C6_NeverRaises ==
    call.op # "none" => /\ ret.op = call.op
                        /\ ~ret.raised
                        /\ ret.msg # "exception"

\* The knowledge-store and lookup tools do turn every failure into a text.
StoreAndLookupReturnText ==
    (call.op # "none" /\ call.op \notin Generators) => ~ret.raised

\* A generator raises only when its document does not parse or cannot be written.
GeneratorRaisesOnBrokenDocument ==
    ret.raised =>
        /\ call.op \in Generators
        /\ \E d \in DocNames : files[d].kind = "malformed" \/ ~writable[d]

-----------------------------------------------------------------------------
(* Properties of the statistics endpoint. *)

RecordsIn(name) == IF files[name].kind = "absent" THEN 0 ELSE Len(files[name].recs)

\* C11: after any sequence of tool invocations run one at a time from a fresh
\* environment, the stats call reports success with status 200 and, for each
\* of the five counted documents, the number of records now in it (0 for an
\* absent one, so five zeros on a fresh environment); and it changes no
\* document.
C11_Stats ==
    [][call'.op = "get_stats"
       => /\ files' = files
          /\ written' = {}
          /\ ret'.msg = "true"
          /\ ret'.num = 200
          /\ Len(ret'.items) = 1
          /\ DOMAIN ret'.items[1] = {"knowledge_entries", "flashcard_decks", "mindmaps",
                                     "ideas", "vocabulary_words"}
          /\ ret'.items[1].knowledge_entries = RecordsIn(KB)
          /\ ret'.items[1].flashcard_decks = RecordsIn(FLASHCARDS)
          /\ ret'.items[1].mindmaps = RecordsIn(MINDMAPS)
          /\ ret'.items[1].ideas = RecordsIn(IDEAS)
          /\ ret'.items[1].vocabulary_words = RecordsIn(VOCAB)
          /\ (\A d \in DocNames : files[d] = AbsentFile)
                => \A k \in DOMAIN ret'.items[1] : ret'.items[1][k] = 0]_vars

\* Statistics were asked for after an idea and a roadmap had been stored.
C11_Witness ==
    /\ call.op = "get_stats"
    /\ ret.msg = "true"
    /\ ret.items[1].ideas = 1
    /\ ret.items[1].mindmaps = 0
    /\ Len(files[ROADMAPS].recs) = 1
    /\ Len(files[IDEAS].recs) = 1

\* Statistics were asked for on a fresh environment.
C11_WitnessFresh ==
    /\ call.op = "get_stats"
    /\ \A d \in DocNames : files[d] = AbsentFile
    /\ \A k \in DOMAIN StatsSource : ret.items[1][k] = 0

-----------------------------------------------------------------------------
(* Properties of the clear-history endpoint. *)

\* C12: a clear-history request leaves the session it names (the default one
\* when it names none) with an empty message list, leaves the history of
\* every other session as it was, and is answered with success for every
\* session id; for a session that was never used no entry is created.
C12_ClearHistory ==
    [][(req["p1"].pc = "idle" /\ req'["p1"].pc = "idle" /\ req'["p1"].route = "clear")
       => LET data == req'["p1"].data
              sid == IF "session_id" \in DOMAIN data THEN data.session_id ELSE "default"
          IN  /\ req'["p1"].status = 200
              /\ req'["p1"].success = "true"
              /\ DOMAIN sessions' = DOMAIN sessions
              /\ sid \in DOMAIN sessions => sessions'[sid] = <<>>
              /\ \A s \in DOMAIN sessions \ {sid} : sessions'[s] = sessions[s]]_vars

\* Session s1, which had received a turn, has been cleared while the default
\* session still holds its turn.
C12_Witness ==
    /\ req["p1"].pc = "idle"
    /\ req["p1"].route = "clear"
    /\ req["p1"].data = [session_id |-> "s1"]
    /\ req["p1"].success = "true"
    /\ DOMAIN sessions = {"default", "s1"}
    /\ sessions["s1"] = <<>>
    /\ Len(sessions["default"]) = 2
    /\ nextOid = 4

\* The default session has been cleared without ever having been used: it
\* has no entry, and session s1 still holds its turn.
C12_WitnessUnused ==
    /\ req["p1"].pc = "idle"
    /\ req["p1"].route = "clear"
    /\ req["p1"].data = [message |-> <<>>]
    /\ req["p1"].success = "true"
    /\ DOMAIN sessions = {"s1"}
    /\ Len(sessions["s1"]) = 2

-----------------------------------------------------------------------------
(* Properties of the summarizer. *)

Summarized == call.op = "universal_summarizer" /\ ret # NoCall

\* The position (from 0) of a sentence among the qualifying sentences.
IndexIn(sentences, s) == (CHOOSE i \in 1..Len(sentences) : sentences[i] = s) - 1

SizeFor(summary_length) ==
    IF summary_length = "short" THEN 3 ELSE IF summary_length = "medium" THEN 6 ELSE 10

\* C13: in text mode, with n >= 1 qualifying sentences and k = 3, 6 or 10 for
\* short, medium or long: when n <= k the summary is all n sentences in
\* original order; when n > k the summary is made of sentences whose indices
\* are strictly ascending, include the first index 0 and the last index n-1
\* and number at most min(k, n); and no division by zero occurs for any n.
C13_SummaryIndices ==
    (/\ Summarized
     /\ call.args[2] = "text"
     /\ ~IsSubstr(YoutubeCom, call.args[1])
     /\ ~IsSubstr(YoutuBe, call.args[1])
     /\ Len(Sentences(call.args[1])) >= 1)
    => LET sentences == Sentences(call.args[1])
           n == Len(sentences)
           k == SizeFor(call.args[3])
       IN  /\ ~ret.raised
           /\ ret.msg = "SUMMARY"
           /\ LET chosen == ret.items[1].summary_sentences
                  at == [j \in 1..Len(chosen) |-> IndexIn(sentences, chosen[j])]
              IN  /\ \A j \in 1..Len(chosen) : \E i \in 1..n : sentences[i] = chosen[j]
                  /\ n <= k => chosen = sentences
                  /\ n > k => /\ \A j \in 1..(Len(chosen) - 1) : at[j] < at[j + 1]
                              /\ at[1] = 0
                              /\ at[Len(chosen)] = n - 1
                              /\ Len(chosen) <= Min(k, n)

\* Eight sentences were summarized as "medium": six are aimed at and five
\* are chosen, the first and the last among them.
C13_Witness ==
    /\ Summarized
    /\ call.args = <<TextOf(8), "text", "medium">>
    /\ ret.msg = "SUMMARY"
    /\ ret.num = 5
    /\ ret.items[1].summary_sentences[1] = Numbered(1)
    /\ ret.items[1].summary_sentences[5] = Numbered(8)

\* Exactly two qualifying sentences with "medium": both are returned in order.
C13_WitnessTwo ==
    /\ Summarized
    /\ call.args = <<<<"h", "i", "!">> \o TextOf(2), "text", "medium">>
    /\ ret.items[1].summary_sentences = <<Numbered(1), Numbered(2)>>

NamesVideoDomain(content) == IsSubstr(YoutubeCom, content) \/ IsSubstr(YoutuBe, content)

SameForEveryLength ==
    \A l \in SummaryLengths : universal_summarizer(call.args[1], call.args[2], l) = ret

\* C14: the summarizer's mode is chosen by the explicit content_type when one
\* is given and by domain detection only for unlabeled input: content_type
\* "book" always yields the book guidance template whatever the content;
\* content_type "youtube", or unlabeled content that contains "youtube.com"
\* or "youtu.be", yields the video guidance template; and in both static
\* modes the result does not depend on summary_length.
C14_ModeByType ==
    Summarized =>
        /\ call.args[2] = "book" => (ret.msg = "BOOK SUMMARY" /\ SameForEveryLength)
        /\ (call.args[2] = "youtube"
              \/ (call.args[2] = "text" /\ NamesVideoDomain(call.args[1])))
           => (ret.msg = "VIDEO SUMMARY" /\ SameForEveryLength)

\* What the code does: a video domain in the content wins over every
\* content_type; "book" yields the book template only without one.
ModeByDomainFirst ==
    Summarized =>
        /\ ~ret.raised
        /\ (call.args[2] = "youtube" \/ NamesVideoDomain(call.args[1]))
           => (ret.msg = "VIDEO SUMMARY" /\ SameForEveryLength)
        /\ (call.args[2] = "book" /\ ~NamesVideoDomain(call.args[1]))
           => (ret.msg = "BOOK SUMMARY" /\ SameForEveryLength)
        /\ (call.args[2] = "text" /\ ~NamesVideoDomain(call.args[1]))
           => ret.msg \in {"SUMMARY", "Content too short to summarize."}

-----------------------------------------------------------------------------
(* Frame of the artifact generators. *)

\* The document each generator keeps.
DocOf ==
    [create_mindmap |-> MINDMAPS, idea_expander |-> IDEAS,
     create_flashcards |-> FLASHCARDS, learning_roadmap |-> ROADMAPS]

\* C15: each completed invocation of the mindmap, idea-expansion or
\* learning-roadmap generator, and each flashcard generation that does not
\* return "too short", appends exactly one record at the end of the
\* generator's own document, leaves the records already in it unchanged and
\* in place, and leaves every other document unchanged.
C15_GeneratorFrame ==
    [][(/\ call'.op \in Generators
        /\ ~ret'.raised
        /\ ret'.msg # "Content too short to create flashcards.")
       => LET d == DocOf[call'.op]
              old == IF files[d].kind = "absent" THEN <<>> ELSE files[d].recs
          IN  /\ files'[d].kind = "ok"
              /\ Len(files'[d].recs) = Len(old) + 1
              /\ SubSeq(files'[d].recs, 1, Len(old)) = old
              /\ written' = {d}
              /\ \A e \in DocNames \ {d} : files'[e] = files[e]]_vars

\* A second mind map has been stored behind the first.
C15_Witness ==
    /\ call.op = "create_mindmap"
    /\ ~ret.raised
    /\ Len(files[MINDMAPS].recs) = 2
    /\ files[MINDMAPS].recs[1].created = 1
    /\ files[MINDMAPS].recs[2].created = 2

\* A deck has been stored while the idea journal held an idea.
C15_WitnessDeck ==
    /\ call.op = "create_flashcards"
    /\ ret.msg = "FLASHCARD SET"
    /\ Len(files[FLASHCARDS].recs) = 1
    /\ Len(files[IDEAS].recs) = 1

-----------------------------------------------------------------------------
(* The cards of a deck. *)

CardsMade == call.op = "create_flashcards" /\ ret # NoCall

\* C16: for content with q >= 1 qualifying sentences, flashcard generation
\* produces exactly min(num_cards, q) cards, one for each of the first
\* min(num_cards, q) qualifying sentences in order, each with the full
\* sentence as its answer; and the stored deck's total_cards is that number.
C16_CardCount ==
    (CardsMade /\ Len(Sentences(call.args[2])) >= 1)
    => LET sentences == Sentences(call.args[2])
           t == Min(call.args[3], Len(sentences))
           cards == ret.items
           decks == files[FLASHCARDS].recs
       IN  /\ ~ret.raised
           /\ Len(cards) = t
           /\ \A j \in 1..Len(cards) : cards[j].answer = sentences[j]
           /\ Len(decks) = 1
           /\ decks[1].total_cards = t

\* What the code does: of the sentences taken (all but the last -num_cards
\* when num_cards is negative), only those of more than five words get a
\* card, numbered by the sentence's position.
CardsForWordySentences ==
    (CardsMade /\ Len(Sentences(call.args[2])) >= 1)
    => LET sentences == Sentences(call.args[2])
           q == Len(sentences)
           t == IF call.args[3] >= 0 THEN Min(call.args[3], q)
                ELSE Max(q + call.args[3], 0)
           wordy == {j \in 1..t : Len(Words(sentences[j])) > 5}
           cards == ret.items
           decks == files[FLASHCARDS].recs
       IN  /\ ~ret.raised
           /\ Len(cards) = Cardinality(wordy)
           /\ {cards[j].id : j \in 1..Len(cards)} = wordy
           /\ \A j \in 1..Len(cards) : cards[j].answer = sentences[cards[j].id]
           /\ \A j \in 1..(Len(cards) - 1) : cards[j].id < cards[j + 1].id
           /\ Len(decks) = 1
           /\ decks[1].cards = cards
           /\ decks[1].total_cards = Len(cards)

\* One card was asked for of a single 21-character word: the deck is empty.
CardlessDeck ==
    /\ CardsMade
    /\ call.args[2] = Numbered(1) \o <<"!">>
    /\ call.args[3] = 1
    /\ ret.num = 0
    /\ files[FLASHCARDS].recs[1].total_cards = 0

-----------------------------------------------------------------------------
(* Entry ids under overlapping saves and retrieves. *)

\* C17: in every reachable state of the knowledge document, under any
\* interleaving of the whole-file reads and whole-file writes of concurrent
\* saves and retrieves that start from an absent document, the entry at
\* position k has id k; so the ids within the document are unique, also in
\* runs where an update is lost.
C17_IdsArePositions ==
    /\ \A k \in 1..Len(KbRecs) : KbRecs[k].id = k
    /\ \A i, j \in 1..Len(KbRecs) : KbRecs[i].id = KbRecs[j].id => i = j

\* Two saves were confirmed, with ids 1 and 2, and a retrieve that had read
\* the document in between wrote its snapshot back last: the document holds
\* the first entry only, touched.
C17_Witness ==
    /\ Len(saved) = 2
    /\ saved[1].id = 1
    /\ saved[2].id = 2
    /\ \E p \in Procs :
          /\ task[p].pc = "idle"
          /\ task[p].op = "retrieve_knowledge"
          /\ task[p].ret.msg = "Found"
    /\ Len(KbRecs) = 1
    /\ KbRecs[1].id = 1
    /\ KbRecs[1].last_accessed # KbRecs[1].timestamp

====
